---- MODULE Spec2Model ----
(***************************************************************************)
(* A model of the ZFace dressup (src/ZFace): the quadtree height cache,    *)
(* the surface-height query with its retry chain, the projection loop of   *)
(* opExecute and the stepdown planner with its feed interpolation.         *)
(*                                                                         *)
(* Lengths are integers.  In the feed and stepdown parts one unit is       *)
(* Path.Geom.Tolerance (1e-6 mm), so that isRoughly is exact; the quadtree *)
(* part uses its own grid (see QuadTree below).  Feeds are kept as exact   *)
(* squares (a fraction n/d standing for sqrt(n/d)), so that comparisons    *)
(* are those of real arithmetic.                                           *)
(***************************************************************************)
EXTENDS Integers, Sequences, FiniteSets, TLC

VARIABLES
    \* ---- interpolate_feedrate called on its own
    f_pc, f_p0, f_p1, f_hfeed, f_vfeed, f_F,
    \* ---- process_stepdown
    sd_pc, path, step_depth, start_depth, clearance_height, safe_height,
    h_feed, v_feed, h_rapid,
    startPoint, endPoint,
    commands, limit_depth, repeat, firstStep, skipZ,
    current, prevPoint, passes,
    \* ---- intersect_z
    iz_pc, iz_i, zmaxs, iz_log, iz_ret, iz_touched,
    \* ---- a QuadTree used on its own
    qt, qt_stored, qt_op, qt_ret, qt_raised,
    \* ---- opExecute: the persistent properties of the operation object, the
    \* live index, and the locals of the projection loop
    p_pc, PointCache, CacheStateHash, BlockCacheInvalidation, runtime_quadtree,
    faces, CacheGrid, SafeHeight, OpStockZMax, segments, z_original_min,
    newcommandlist, seg_i, pt_i, gsz, p_exc, progress_counter, GuiUp,
    invocations, sample_hash,
    \* discretize_commands
    dc_pc, dc_commands, temp_location, dc_segments, dc_i, dc_seen

feedVars == <<f_pc, f_p0, f_p1, f_hfeed, f_vfeed, f_F>>
sdIn     == <<path, step_depth, start_depth, clearance_height, safe_height,
              h_feed, v_feed, h_rapid>>
sdVars   == <<sd_pc, sdIn, startPoint, endPoint, commands, limit_depth,
              repeat, firstStep, skipZ, current, prevPoint, passes>>
izVars   == <<iz_pc, iz_i, zmaxs, iz_log, iz_ret, iz_touched>>
qtVars   == <<qt, qt_stored, qt_op, qt_ret, qt_raised>>
objVars  == <<PointCache, CacheStateHash, BlockCacheInvalidation, runtime_quadtree,
              sample_hash>>
loopVars == <<faces, CacheGrid, SafeHeight, OpStockZMax, segments, z_original_min,
              newcommandlist, seg_i, pt_i, gsz, p_exc, progress_counter, GuiUp,
              invocations>>
opVars   == <<p_pc, objVars, loopVars>>
dcVars   == <<dc_pc, dc_commands, temp_location, dc_segments, dc_i, dc_seen>>
vars     == <<feedVars, sdVars, izVars, qtVars, opVars, dcVars>>

----------------------------------------------------------------------------
(* Values shared by all parts *)

\* An optional value: None is <<>>, a present value v is <<v>>.
None == <<>>

Some(v) == <<v>>

Val(o) == o[1]

Abs(a) == IF a < 0 THEN -a ELSE a

Min2(a, b) == IF a <= b THEN a ELSE b

Max2(a, b) == IF a >= b THEN a ELSE b

RECURSIVE GCD(_, _)
GCD(a, b) == IF b = 0 THEN a ELSE GCD(b, a % b)

Vector(x, y, z) == [x |-> x, y |-> y, z |-> z]

\* Path.Geom.Tolerance = 0.000001 mm: the unit of length of this part.
Tolerance == 1

\* Path.Geom.isRoughly(float1, float2, error=Tolerance)
isRoughly(float1, float2) == Abs(float1 - float2) <= Tolerance

----------------------------------------------------------------------------
(* interpolate_feedrate                                                    *)

\* A feed F > 0 is kept as the fraction n/d = F^2.
Feed2(n, d) == [n |-> n, d |-> d]

FeedOf(f) == Feed2(f * f, 1)

FeedLeq(a, b) == a.n * b.d <= b.n * a.d

FeedMin(a, b) == IF FeedLeq(a, b) THEN a ELSE b

\* The displacement p0 -> p1 divided by the gcd of its components: ratios of
\* lengths (dist/dist_xy, dist/|dz|) are those of the displacement itself.
Reduced(p0, p1) ==
    LET dx == p1.x - p0.x
        dy == p1.y - p0.y
        dz == p1.z - p0.z
        g0 == GCD(GCD(Abs(dx), Abs(dy)), Abs(dz))
        g  == IF g0 = 0 THEN 1 ELSE g0
        rx == dx \div g
        ry == dy \div g
        rz == dz \div g
    IN  [xy2 |-> rx * rx + ry * ry, z2 |-> rz * rz,
         d2 |-> rx * rx + ry * ry + rz * rz]

\* isRoughly(dist, 0.0), dist = sqrt(dx*dx + dy*dy + dz*dz)
DistRoughlyZero(dx, dy, dz) ==
    /\ Abs(dx) <= Tolerance
    /\ Abs(dy) <= Tolerance
    /\ Abs(dz) <= Tolerance
    /\ dx * dx + dy * dy + dz * dz <= Tolerance * Tolerance

interpolate_feedrate(p0, p1, horiz_feed, vert_feed) ==
    LET dx == p1.x - p0.x
        dy == p1.y - p0.y
        dz == p1.z - p0.z
        r  == Reduced(p0, p1)
    IN  IF ~DistRoughlyZero(dx, dy, dz)
        THEN IF DistRoughlyZero(dx, dy, 0)
             THEN IF dz > 0 THEN FeedOf(horiz_feed) ELSE FeedOf(vert_feed)
             ELSE IF isRoughly(dz, 0)
                  THEN FeedOf(horiz_feed)
                  ELSE LET Fh == Feed2(horiz_feed * horiz_feed * r.d2, r.xy2)
                           Fv == Feed2(vert_feed * vert_feed * r.d2, r.z2)
                       IN  IF dz > 0 THEN Fh ELSE FeedMin(Fh, Fv)
        ELSE FeedOf(vert_feed)

\* h_comp = F * dist_xy / dist (0 when dist = 0), compared with a feed f:
\* h_comp <= f  iff  F^2 * dist_xy^2 <= f^2 * dist^2.
HCompLeq(F, p0, p1, f) ==
    LET r == Reduced(p0, p1)
    IN  r.d2 = 0 \/ F.n * r.xy2 <= f * f * F.d * r.d2

\* v_comp = F * |dz| / dist (0 when dist = 0), compared with a feed f.
VCompLeq(F, p0, p1, f) ==
    LET r == Reduced(p0, p1)
    IN  r.d2 = 0 \/ F.n * r.z2 <= f * f * F.d * r.d2

\* Inputs of the stand-alone calls.
FeedSpan == 2

FeedCoord == (-FeedSpan) .. FeedSpan

FeedValues == {1, 2, 5}

FeedInit ==
    /\ f_pc = "idle"
    /\ f_p0 = Vector(0, 0, 0)
    /\ f_p1 = Vector(0, 0, 0)
    /\ f_hfeed = 1
    /\ f_vfeed = 1
    /\ f_F = None

FeedCall ==
    /\ f_pc = "idle"
    /\ \E x0 \in 0 .. 1, z0 \in 0 .. 1, x1 \in FeedCoord, y1 \in FeedCoord,
          z1 \in FeedCoord, hf \in FeedValues, vf \in FeedValues :
          /\ f_p0' = Vector(x0, 0, z0)
          /\ f_p1' = Vector(x1, y1, z1)
          /\ f_hfeed' = hf
          /\ f_vfeed' = vf
          /\ f_F' = Some(interpolate_feedrate(Vector(x0, 0, z0),
                                              Vector(x1, y1, z1), hf, vf))
    /\ f_pc' = "done"

----------------------------------------------------------------------------
(* process_stepdown                                                        *)

\* A command of the input path: Name and the optional axes x, y, z
\* (Path.Command's cmd.x, cmd.y, cmd.z are None for an absent axis).
Cmd(name, x, y, z) == [Name |-> name, x |-> x, y |-> y, z |-> z]

\* An emitted command.  branch and limit are history fields: the branch of
\* process_stepdown that emitted it ("start", "rapid" or "cut") and the
\* limit_depth of the pass that emitted it.
\* A variant that emits the commands without feed rate.
OutCmdWithoutFeed(name, x, y, z, f, branch, limit) ==
    [Name |-> name, X |-> x, Y |-> y, Z |-> z, F |-> None, branch |-> branch,
     limit |-> limit]

OutCmd(name, x, y, z, f, branch, limit) ==
    [Name |-> name, X |-> x, Y |-> y, Z |-> z, F |-> f, branch |-> branch,
     limit |-> limit]

\* The first command of cmds (in the order given by the index sequence
\* order) that carries the axis a, or None.
FirstAxis(cmds, order, a) ==
    LET have == {k \in 1 .. Len(order) : cmds[order[k]][a] # None}
    IN  IF have = {} THEN None
        ELSE cmds[order[CHOOSE k \in have : \A j \in have : k <= j]][a]

getPointIn(cmds, order) ==
    LET x == FirstAxis(cmds, order, "x")
        y == FirstAxis(cmds, order, "y")
        z == FirstAxis(cmds, order, "z")
    IN  IF x # None /\ y # None /\ z # None
        THEN Some(Vector(Val(x), Val(y), Val(z)))
        ELSE None

getPoint(cmds) == getPointIn(cmds, [k \in 1 .. Len(cmds) |-> k])

\* getPoint(reversed(path.Commands))
getPointReversed(cmds) ==
    getPointIn(cmds, [k \in 1 .. Len(cmds) |-> Len(cmds) + 1 - k])

\* A variant that takes no path for closed.
isNeverClosed(point1, point2) == FALSE

isClosedPath(point1, point2) ==
    IF point1 = None \/ point2 = None THEN FALSE
    ELSE IF ~isRoughly(Val(point1).x, Val(point2).x) THEN FALSE
    ELSE IF ~isRoughly(Val(point1).y, Val(point2).y) THEN FALSE
    ELSE TRUE

\* A variant that also counts a z1 equal to z2 as lower.
isLowerOrEqual(z1, z2) ==
    IF z1 = None THEN FALSE
    ELSE Val(z1) <= z2

\* isLower on an optional z1 and a number z2.
isLower(z1, z2) ==
    IF z1 = None THEN FALSE
    ELSE IF isRoughly(Val(z1), z2) THEN FALSE
    ELSE Val(z1) < z2

\* rapid_margin = 0.5 mm
rapid_margin == 500000

rapid_through_cleared == TRUE

\* One iteration of "for cmd in path.Commands" on the loop state st
\* (current_x, current_y, current_z, repeat and the commands emitted).
StepdownCmd(st, cmd, skip, limit, pp) ==
    IF /\ skip
       /\ cmd.x = None
       /\ cmd.y = None
       /\ (cmd.z = Some(clearance_height) \/ cmd.z = Some(safe_height))
    THEN st
    ELSE LET cx  == IF cmd.x # None THEN Val(cmd.x) ELSE st.x
             cy  == IF cmd.y # None THEN Val(cmd.y) ELSE st.y
             low == isLower(cmd.z, limit)
             cz  == IF low THEN limit
                    ELSE IF cmd.z # None THEN Val(cmd.z) ELSE st.z
             rapid == rapid_through_cleared
                      /\ ~isLower(Some(cz), limit + step_depth + rapid_margin)
             oz  == IF rapid THEN cz + rapid_margin ELSE cz
             thisFeed == IF rapid THEN FeedOf(h_rapid)
                         ELSE interpolate_feedrate(pp, Vector(cx, cy, cz),
                                                   h_feed, v_feed)
         IN  [x |-> cx, y |-> cy, z |-> oz, repeat |-> st.repeat \/ low,
              out |-> Append(st.out,
                             OutCmd("G1", Some(cx), Some(cy), Some(oz),
                                    Some(thisFeed),
                                    IF rapid THEN "rapid" ELSE "cut", limit))]

\* "for cmd in path.Commands" from command k on; the state after command k
\* is a value before the loop goes on.
RECURSIVE StepdownLoop(_, _, _, _, _, _)
StepdownLoop(st, cmds, k, skip, limit, pp) ==
    IF k > Len(cmds) THEN st
    ELSE CHOOSE r \in {StepdownLoop(s, cmds, k + 1, skip, limit, pp) :
                          s \in {StepdownCmd(st, cmds[k], skip, limit, pp)}} : TRUE

\* Inputs.  Lengths of the paths tried are multiples of a quarter millimetre.
Grid == rapid_margin \div 2

MaxPath == 2

PathX == {None, Some(0), Some(4 * Grid)}

PathY == {None, Some(0)}

PathZ == {None, Some(6 * Grid), Some(4 * Grid), Some(0), Some(-3 * Grid),
          Some(-6 * Grid)}

\* A command with no axis is a non-motion command passed through by the
\* projection loop; the others are moves.
PathCmds ==
    {Cmd(IF x = None /\ y = None /\ z = None THEN "M3" ELSE "G1", x, y, z) :
        x \in PathX, y \in PathY, z \in PathZ}

RECURSIVE SeqsUpTo(_, _)
SeqsUpTo(S, n) ==
    IF n = 0 THEN {<<>>}
    ELSE LET shorter == SeqsUpTo(S, n - 1)
         IN  shorter \cup {Append(q, e) : q \in {r \in shorter : Len(r) = n - 1},
                                          e \in S}

Paths == SeqsUpTo(PathCmds, MaxPath)

StepDepths == {2 * Grid, 4 * Grid}

StartDepths == {0, 2 * Grid}

SDInit ==
    /\ sd_pc = "idle"
    /\ path = <<>>
    /\ step_depth = 2 * Grid
    /\ start_depth = 0
    /\ clearance_height = 6 * Grid
    /\ safe_height = 8 * Grid
    /\ h_feed = 3
    /\ v_feed = 1
    /\ h_rapid = 7
    /\ startPoint = None
    /\ endPoint = None
    /\ commands = <<>>
    /\ limit_depth = 0
    /\ repeat = TRUE
    /\ firstStep = TRUE
    /\ skipZ = FALSE
    /\ current = None
    /\ prevPoint = None
    /\ passes = 0

\* process_stepdown is entered: lines 1022-1032.
SD_Call ==
    /\ sd_pc = "idle"
    /\ \E p \in Paths, sd \in StepDepths, s0 \in StartDepths :
          /\ path' = p
          /\ step_depth' = sd
          /\ start_depth' = s0
          /\ limit_depth' = s0
          /\ startPoint' = getPoint(p)
          /\ endPoint' = getPointReversed(p)
    /\ commands' = <<>>
    /\ repeat' = TRUE
    /\ firstStep' = TRUE
    /\ sd_pc' = "while"
    /\ UNCHANGED <<clearance_height, safe_height, h_feed, v_feed,
                   h_rapid, skipZ, current, prevPoint, passes>>

\* One pass of "while repeat": lines 1034-1095.  With no start point the
\* first pass raises AttributeError on startPoint.z.
SD_Pass ==
    /\ sd_pc = "while"
    /\ repeat
    /\ LET limit == limit_depth - step_depth
           skip  == ~firstStep /\ isClosedPath(startPoint, endPoint)
       IN  /\ limit_depth' = limit
           /\ skipZ' = skip
           /\ passes' = passes + 1
           /\ IF startPoint = None
              THEN /\ sd_pc' = "raised"
                   /\ repeat' = FALSE
                   /\ UNCHANGED <<commands, firstStep, current, prevPoint>>
              ELSE LET sp  == Val(startPoint)
                       pre == IF skip THEN commands
                              ELSE commands \o
                                   <<OutCmd("G0", None, None, Some(sp.z), None,
                                            "start", limit),
                                     OutCmd("G0", Some(sp.x), Some(sp.y), None, None,
                                            "start", limit)>>
                   IN  \E st \in {StepdownLoop([x |-> sp.x, y |-> sp.y, z |-> sp.z,
                                                repeat |-> FALSE, out |-> pre],
                                               path, 1, skip, limit, sp)} :
                       /\ commands' = st.out
                       /\ repeat' = st.repeat
                       /\ current' = Some(Vector(st.x, st.y, st.z))
                       /\ prevPoint' = Some(sp)
                       /\ firstStep' = FALSE
                       /\ sd_pc' = "while"
    /\ UNCHANGED <<sdIn, startPoint, endPoint>>

\* A variant that returns after the first pass whatever repeat holds.
SD_ReturnAfterFirstPass ==
    /\ sd_pc = "while"
    /\ passes >= 1
    /\ sd_pc' = "done"
    /\ UNCHANGED <<sdIn, startPoint, endPoint, commands, limit_depth, repeat,
                   firstStep, skipZ, current, prevPoint, passes>>

\* "while repeat" ends and process_stepdown returns commands: line 1097.
SD_Return ==
    /\ sd_pc = "while"
    /\ ~repeat
    /\ sd_pc' = "done"
    /\ UNCHANGED <<sdIn, startPoint, endPoint, commands, limit_depth, repeat,
                   firstStep, skipZ, current, prevPoint, passes>>

----------------------------------------------------------------------------
(* try_intersect_z and intersect_z (ZFaceSection.py)                       *)
(*                                                                         *)
(* The shape returned by cyl.section(...) is the answer of the host's      *)
(* geometry kernel.  It is kept as a record of what the code reads of it:  *)
(* valid (isValid, not isNull, bounds within 1e6), edges (len(Edges)),     *)
(* len (Length) and zmax (BoundBox.ZMax).                                  *)

Section(valid, edges, len, zmax) ==
    [valid |-> valid, edges |-> edges, len |-> len, zmax |-> zmax]

is_valid_section(section) == section.valid

\* min_len = 2 * 3.14159 * radius * 0.98; lengths are counted in halves of it.
min_len == 2

is_full_length(section) == ~(section.len < min_len)

\* Returns False for a section without edges and True otherwise.
is_empty_section(section) == IF section.edges = 0 THEN FALSE ELSE TRUE

RECURSIVE SumLen(_)
SumLen(secs) == IF secs = <<>> THEN 0 ELSE Head(secs).len + SumLen(Tail(secs))

RECURSIVE MaxZMax(_)
MaxZMax(secs) ==
    IF Len(secs) = 1 THEN secs[1].zmax
    ELSE Max2(Head(secs).zmax, MaxZMax(Tail(secs)))

RECURSIVE SelectSeq2(_, _)
SelectSeq2(secs, keep) ==
    IF secs = <<>> THEN <<>>
    ELSE IF keep[1] THEN <<Head(secs)>> \o SelectSeq2(Tail(secs), Tail(keep))
         ELSE SelectSeq2(Tail(secs), Tail(keep))

Result(success, z) == [success |-> success, z |-> z]

\* The sections of the faces the tool touches: the valid ones that hold at
\* least one edge.
Touched(perface) ==
    SelectSeq2(perface, [k \in 1 .. Len(perface) |->
                            perface[k].valid /\ perface[k].edges > 0])

\* try_intersect_z on the kernel's answers: compound is the section with the
\* merged faces, perface the sections with the faces one by one.
try_intersect_z(run, compound, perface) ==
    IF run.use_compound
    THEN IF ~is_valid_section(compound) THEN Result(FALSE, None)
         ELSE IF run.rule_out_short_length /\ ~is_full_length(compound)
              THEN Result(FALSE, Some(compound.zmax))
              ELSE Result(TRUE, Some(compound.zmax))
    ELSE LET sections ==
                 SelectSeq2(perface,
                            [k \in 1 .. Len(perface) |->
                                is_valid_section(perface[k])
                                /\ ~is_empty_section(perface[k])])
         IN  IF Len(sections) = 0 THEN Result(FALSE, None)
             ELSE IF run.rule_out_short_length /\ SumLen(sections) < min_len
                  THEN Result(FALSE, Some(MaxZMax(sections)))
                  ELSE Result(TRUE, Some(MaxZMax(sections)))

Run(rotate_z, use_approximation, use_compound, use_poly_cylinder, rule_out) ==
    [rotate_z |-> rotate_z, use_approximation |-> use_approximation,
     use_compound |-> use_compound, use_poly_cylinder |-> use_poly_cylinder,
     rule_out_short_length |-> rule_out]

\* A variant of the list with the rotations of its second and third entry
\* exchanged.
runs_swapped ==
    << Run(0, FALSE, TRUE, FALSE, TRUE),
       Run(45, FALSE, TRUE, FALSE, TRUE),
       Run(180, FALSE, TRUE, FALSE, TRUE),
       Run(0, TRUE, TRUE, FALSE, FALSE),
       Run(180, TRUE, TRUE, FALSE, FALSE),
       Run(0, FALSE, FALSE, FALSE, FALSE),
       Run(0, FALSE, TRUE, TRUE, FALSE),
       Run(0, FALSE, FALSE, TRUE, FALSE) >>

\* The list runs of intersect_z, with the defaults of try_intersect_z
\* (rotate_z=None, use_approximation=False, use_compound=True,
\* use_poly_cylinder=False) filled in.
runs ==
    << Run(0, FALSE, TRUE, FALSE, TRUE),
       Run(180, FALSE, TRUE, FALSE, TRUE),
       Run(45, FALSE, TRUE, FALSE, TRUE),
       Run(0, TRUE, TRUE, FALSE, FALSE),
       Run(180, TRUE, TRUE, FALSE, FALSE),
       Run(0, FALSE, FALSE, FALSE, FALSE),
       Run(0, FALSE, TRUE, TRUE, FALSE),
       Run(0, FALSE, FALSE, TRUE, FALSE) >>

RECURSIVE MaxOf(_)
MaxOf(zs) == IF Len(zs) = 1 THEN zs[1] ELSE Max2(Head(zs), MaxOf(Tail(zs)))

\* The kernel's answers tried.
MaxZ == 2

SectionZ == 1 .. MaxZ

Sections ==
    {Section(FALSE, 0, 0, 0)}
    \cup {Section(TRUE, 0, 0, z) : z \in SectionZ}
    \cup {Section(TRUE, 1, l, z) : l \in {1, min_len}, z \in SectionZ}

NumFaces == 2

IZInit ==
    /\ iz_pc = "idle"
    /\ iz_i = 0
    /\ zmaxs = <<>>
    /\ iz_log = <<>>
    /\ iz_ret = None
    /\ iz_touched = None

\* intersect_z is entered: lines 224-244.
IZ_Call ==
    /\ iz_pc = "idle"
    /\ iz_pc' = "for"
    /\ iz_i' = 0
    /\ zmaxs' = <<>>
    /\ iz_log' = <<>>
    /\ iz_ret' = None
    /\ iz_touched' = None

\* One iteration of "for i, run_params in enumerate(runs)": lines 245-261.
\* iz_log is a history variable: the run tried and what it returned;
\* iz_touched holds, when the last run went face by face and the tool
\* touches a face, the highest ZMax of the sections of the touched faces.
IZ_Attempt ==
    /\ iz_pc = "for"
    /\ iz_i < Len(runs)
    /\ \E compound \in Sections, perface \in [1 .. NumFaces -> Sections] :
          LET run == runs[iz_i + 1]
              r   == try_intersect_z(run, compound, perface)
              zs  == IF r.z # None THEN Append(zmaxs, Val(r.z)) ELSE zmaxs
          IN  /\ zmaxs' = zs
              /\ iz_touched' = IF run.use_compound \/ Touched(perface) = <<>>
                               THEN None
                               ELSE Some(MaxZMax(Touched(perface)))
              /\ iz_log' = Append(iz_log, [run |-> run, success |-> r.success,
                                           z |-> r.z])
              /\ IF r.success
                 THEN /\ iz_ret' = Some(MaxOf(zs))
                      /\ iz_pc' = "done"
                 ELSE /\ iz_ret' = None
                      /\ iz_pc' = "for"
    /\ iz_i' = iz_i + 1

\* The loop is exhausted: "return None", line 275.
IZ_ReturnNone ==
    /\ iz_pc = "for"
    /\ iz_i = Len(runs)
    /\ iz_ret' = None
    /\ iz_pc' = "done"
    /\ UNCHANGED <<iz_i, zmaxs, iz_log, iz_touched>>

----------------------------------------------------------------------------
(* QuadTree (QuadTree.py)                                                  *)
(*                                                                         *)
(* Coordinates of the quadtree part are integers in a grid of MM units to  *)
(* the millimetre, fine enough for every midpoint 0.5 * (min + max) and    *)
(* every padding 0.01 * dx that arises to be an integer.                   *)
(*                                                                         *)
(* Node.insert recurses once per level.  MaxDepth stands for the           *)
(* interpreter's recursion limit: a call that needs a frame beyond it      *)
(* raises RecursionError.  frames counts the frames in use.                *)

MaxDepth == 3

MM == 100 * 2 ^ (MaxDepth + 1)

Node(xmin, xmax, ymin, ymax, capacity) ==
    [xmin |-> xmin, xmax |-> xmax, ymin |-> ymin, ymax |-> ymax,
     capacity |-> capacity, points |-> <<>>, children |-> <<>>]

contains(n, x, y) == (n.xmin <= x /\ x <= n.xmax) /\ (n.ymin <= y /\ y <= n.ymax)

subdivide(n) ==
    LET mx == (n.xmin + n.xmax) \div 2
        my == (n.ymin + n.ymax) \div 2
    IN  [n EXCEPT !.children =
            << Node(n.xmin, mx, my, n.ymax, n.capacity),
               Node(mx, n.xmax, my, n.ymax, n.capacity),
               Node(n.xmin, mx, n.ymin, my, n.capacity),
               Node(mx, n.xmax, n.ymin, my, n.capacity) >>]

InsertResult(n, ret) == [node |-> n, ret |-> ret]

\* Node.insert.  ret is "True", "False" or "RecursionError"; node is the node
\* as the call leaves it.
RECURSIVE NodeInsert(_, _, _, _, _)
RECURSIVE InsertIntoChildren(_, _, _, _, _, _)
RECURSIVE MovePoints(_, _, _)
RECURSIVE MoveOne(_, _, _, _)

\* "for ch in self.children: if ch.insert(px, py, pz): ... break", and the
\* append to self.points when no child took the point (lines 50-58).  A
\* child just created holds fewer than capacity points, so that these
\* inserts do not subdivide.
MoveOne(n, k, pt, frames) ==
    IF k > Len(n.children)
    THEN [n EXCEPT !.points = Append(n.points, pt)]
    ELSE LET r == NodeInsert(n.children[k], pt[1], pt[2], pt[3], frames + 1)
         IN  IF r.ret = "True"
             THEN [n EXCEPT !.children[k] = r.node]
             ELSE MoveOne(n, k + 1, pt, frames)

MovePoints(n, pts, frames) ==
    IF pts = <<>> THEN n
    ELSE MovePoints(MoveOne(n, 1, Head(pts), frames), Tail(pts), frames)

\* "for ch in self.children: if ch.insert(x, y, z): return True", and the
\* append when no child took the point (lines 62-68).
InsertIntoChildren(n, k, x, y, z, frames) ==
    IF k > Len(n.children)
    THEN InsertResult([n EXCEPT !.points = Append(n.points, <<x, y, z>>)], "True")
    ELSE LET r == NodeInsert(n.children[k], x, y, z, frames + 1)
         IN  IF r.ret = "False"
             THEN InsertIntoChildren(n, k + 1, x, y, z, frames)
             ELSE InsertResult([n EXCEPT !.children[k] = r.node], r.ret)

NodeInsert(n, x, y, z, frames) ==
    IF ~contains(n, x, y) THEN InsertResult(n, "False")
    ELSE IF n.children = <<>>
         THEN IF Len(n.points) < n.capacity
              THEN InsertResult([n EXCEPT !.points = Append(n.points, <<x, y, z>>)],
                                "True")
              ELSE IF frames >= MaxDepth
                   THEN InsertResult(n, "RecursionError")
                   ELSE LET sub == [subdivide(n) EXCEPT !.points = <<>>]
                        IN  InsertIntoChildren(MovePoints(sub, n.points, frames),
                                               1, x, y, z, frames)
         ELSE InsertIntoChildren(n, 1, x, y, z, frames)

\* The square of the least distance from (x, y) to the region of n.
MinDistSq(n, x, y) ==
    LET dx == IF x < n.xmin THEN n.xmin - x
              ELSE IF x > n.xmax THEN x - n.xmax ELSE 0
        dy == IF y < n.ymin THEN n.ymin - y
              ELSE IF y > n.ymax THEN y - n.ymax ELSE 0
    IN  dx * dx + dy * dy

Best(d2, pt) == [d2 |-> d2, pt |-> pt]

\* "for px, py, pz in self.points" of Node.nearest (lines 95-100); best is
\* None or Some(Best).
RECURSIVE ScanPoints(_, _, _, _)
ScanPoints(pts, x, y, best) ==
    IF pts = <<>> THEN best
    ELSE LET pt == Head(pts)
             d2 == (pt[1] - x) * (pt[1] - x) + (pt[2] - y) * (pt[2] - y)
         IN  ScanPoints(Tail(pts), x, y,
                        IF best = None \/ d2 < Val(best).d2
                        THEN Some(Best(d2, pt)) ELSE best)

\* sorted(self.children, key=...): the children by increasing least
\* distance, those of equal distance in their order in the list.
ChildOrder(n, x, y) ==
    LET key(k) == MinDistSq(n.children[k], x, y)
        before(j, k) == key(j) < key(k) \/ (key(j) = key(k) /\ j < k)
        rank(k) == 1 + Cardinality({j \in 1 .. 4 : before(j, k)})
    IN  [r \in 1 .. 4 |-> CHOOSE k \in 1 .. 4 : rank(k) = r]

NearestResult(raised, best) == [raised |-> raised, best |-> best]

\* Node.nearest.  Sorting the children of a node takes the frames of a
\* call one level down and of the comparison in it.
RECURSIVE NodeNearest(_, _, _, _, _)
RECURSIVE NearestInChildren(_, _, _, _, _, _, _)

NearestInChildren(n, order, r, x, y, best, frames) ==
    IF r > Len(order) THEN NearestResult(FALSE, best)
    ELSE LET res == NodeNearest(n.children[order[r]], x, y, best, frames + 1)
         IN  IF res.raised THEN res
             ELSE NearestInChildren(n, order, r + 1, x, y, res.best, frames)

NodeNearest(n, x, y, best, frames) ==
    IF best # None /\ MinDistSq(n, x, y) >= Val(best).d2
    THEN NearestResult(FALSE, best)
    ELSE LET b == ScanPoints(n.points, x, y, best)
         IN  IF n.children = <<>> THEN NearestResult(FALSE, b)
             ELSE IF frames + 1 >= MaxDepth THEN NearestResult(TRUE, None)
             ELSE NearestInChildren(n, ChildOrder(n, x, y), 1, x, y, b, frames)

\* QuadTree.__init__
QuadTree(xmin, xmax, ymin, ymax, capacity) ==
    LET xmax1 == IF xmax <= xmin THEN xmin + MM ELSE xmax
        ymax1 == IF ymax <= ymin THEN ymin + MM ELSE ymax
    IN  [root |-> Node(xmin, xmax1, ymin, ymax1, capacity)]

\* QuadTree.insert, called with frames frames in use.
QuadTreeInsert(t, x, y, z, frames) ==
    LET r == NodeInsert(t.root, x, y, z, frames)
    IN  [tree |-> [t EXCEPT !.root = r.node], ret |-> r.ret]

\* QuadTree.nearest: raised tells that the call raised RecursionError;
\* otherwise ret is None or Some(<<px, py, pz, d2>>), where d2 is the square
\* of the distance returned (math.sqrt(d2)).
QuadTreeNearest(t, x, y) ==
    LET res == NodeNearest(t.root, x, y, None, 0)
    IN  [raised |-> res.raised,
         ret |-> IF res.raised \/ res.best = None THEN None
                 ELSE Some(<<Val(res.best).pt[1], Val(res.best).pt[2],
                             Val(res.best).pt[3], Val(res.best).d2>>)]

\* The points of the tree, in no order.
RECURSIVE NodePoints(_)
NodePoints(n) ==
    IF n.children = <<>> THEN n.points
    ELSE n.points \o NodePoints(n.children[1]) \o NodePoints(n.children[2])
         \o NodePoints(n.children[3]) \o NodePoints(n.children[4])

\* Inputs of the stand-alone quadtree.
MaxInserts == 3

QTPoints == {<<0, 0, 1>>, <<MM, MM, 1>>, <<MM, MM, 2>>, <<2 * MM, 2 * MM, 1>>,
             <<3 * MM, MM, 1>>}

QTQueries == {<<0, 0>>, <<MM, MM>>, <<2 * MM, 0>>, <<3 * MM, 3 * MM>>,
              <<MM \div 2, MM>>}

QTCapacities == {1, 2}

QTInit ==
    /\ qt = None
    /\ qt_stored = <<>>
    /\ qt_op = "none"
    /\ qt_ret = [call |-> None, ret |-> None]
    /\ qt_raised = FALSE

\* QuadTree(xmin, xmax, ymin, ymax, capacity)
QT_New ==
    /\ qt = None
    /\ \E cap \in QTCapacities, w \in {0, 2 * MM} :
          qt' = Some(QuadTree(0, w, 0, w, cap))
    /\ qt_op' = "new"
    /\ UNCHANGED <<qt_stored, qt_ret, qt_raised>>

\* qt.insert(x, y, z), by a caller frames frames deeper than the callers of
\* nearest.  qt_stored is a history variable: the samples whose insert
\* returned True; qt_raised, that an insert has raised RecursionError.
QT_Insert ==
    /\ qt # None
    /\ Len(qt_stored) < MaxInserts
    /\ \E pt \in QTPoints, frames \in {0, 1} :
          LET r == QuadTreeInsert(Val(qt), pt[1], pt[2], pt[3], frames)
          IN  /\ qt' = Some(r.tree)
              /\ qt_ret' = [call |-> pt, ret |-> r.ret]
              /\ qt_stored' = IF r.ret = "True" THEN Append(qt_stored, pt)
                              ELSE qt_stored
              /\ qt_raised' = (qt_raised \/ r.ret = "RecursionError")
    /\ qt_op' = "insert"

\* qt.nearest(x, y)
QT_Nearest ==
    /\ qt # None
    /\ qt_op # "nearest"
    /\ \E q \in QTQueries :
          qt_ret' = [call |-> q, ret |-> QuadTreeNearest(Val(qt), q[1], q[2])]
    /\ qt_op' = "nearest"
    /\ UNCHANGED <<qt, qt_stored, qt_raised>>

----------------------------------------------------------------------------
(* ObjectZFace: the point cache, get_surface_z and the projection loop of  *)
(* opExecute (ZFace.py).  X, Y and Z are in the grid of the quadtree part. *)

\* QuadTree.from_point_list, called with a non-empty list; raised tells
\* that an insert raised RecursionError.  The inserts run one frame deeper
\* than a call of nearest by get_surface_z.
RECURSIVE InsertAll(_, _)
InsertAll(t, points) ==
    IF points = <<>> THEN [raised |-> FALSE, tree |-> t]
    ELSE LET pt == Head(points)
             r == QuadTreeInsert(t, pt[1], pt[2], pt[3], 1)
         IN  IF r.ret = "RecursionError" THEN [raised |-> TRUE, tree |-> r.tree]
             ELSE InsertAll(r.tree, Tail(points))

MinOver(S) == CHOOSE m \in S : \A e \in S : m <= e

MaxOver(S) == CHOOSE m \in S : \A e \in S : e <= m

from_point_list(points, bounds_padding, capacity) ==
    LET xs == {points[i][1] : i \in 1 .. Len(points)}
        ys == {points[i][2] : i \in 1 .. Len(points)}
        xmin == MinOver(xs)
        xmax == MaxOver(xs)
        ymin == MinOver(ys)
        ymax == MaxOver(ys)
        dx == IF xmax - xmin = 0 THEN MM ELSE xmax - xmin
        dy == IF ymax - ymin = 0 THEN MM ELSE ymax - ymin
        padx == IF bounds_padding > 0 THEN bounds_padding ELSE dx \div 100
        pady == IF bounds_padding > 0 THEN bounds_padding ELSE dy \div 100
    IN  InsertAll(QuadTree(xmin - padx, xmax + padx, ymin - pady, ymax + pady,
                           capacity), points)

\* The persistent cache is a dict: None when it has no "points" entry,
\* Some(list) otherwise.
CachePoints(pc) == IF pc = None THEN <<>> ELSE Val(pc)

\* _rebuild_quadtree; bounds is None or Some(<<xmin, xmax, ymin, ymax>>)
rebuild_quadtree(pc, bounds) ==
    LET pts == CachePoints(pc)
        b == IF bounds # None THEN Val(bounds)
             ELSE <<-1000 * MM, 1000 * MM, -1000 * MM, 1000 * MM>>
    IN  IF pts # <<>> THEN from_point_list(pts, 0, 8)
        ELSE [raised |-> FALSE, tree |-> QuadTree(b[1], b[2], b[3], b[4], 8)]

\* A variant that stores the new sample in front of the list.
insert_cache_point_in_front(pc, t, x, y, z) ==
    LET pts == <<<<x, y, z>>>> \o CachePoints(pc)
        r == QuadTreeInsert(t, x, y, z, 1)
    IN  [PointCache |-> Some(pts), tree |-> r.tree, raised |-> r.ret # "True"]

\* _insert_cache_point; raised tells that the call raised (ValueError when
\* the tree did not take the point, RecursionError from the insert).
insert_cache_point(pc, t, x, y, z) ==
    LET pts == Append(CachePoints(pc), <<x, y, z>>)
        r == QuadTreeInsert(t, x, y, z, 1)
    IN  [PointCache |-> Some(pts), tree |-> r.tree, raised |-> r.ret # "True"]

\* A variant accepting only samples strictly nearer than tol.
DistLess(d2, tol) == tol >= 0 /\ d2 < tol * tol

\* dist <= tol, for dist = math.sqrt(d2)
DistLeq(d2, tol) == tol >= 0 /\ d2 <= tol * tol

\* get_surface_z(obj, x, y).  z_val is what intersect_z returns if it is
\* called.  The result holds the value returned, the cache and the index as
\* the call leaves them, and the number of calls of intersect_z made.
get_surface_z(pc, t, tol, x, y, z_val, z_raises) ==
    LET nearest == QuadTreeNearest(t, x, y)
    IN  IF nearest.raised
        THEN [raised |-> TRUE, ret |-> None, PointCache |-> pc, tree |-> t,
              intersect_calls |-> 0]
        ELSE IF nearest.ret # None /\ DistLeq(Val(nearest.ret)[4], tol)
        THEN [raised |-> FALSE, ret |-> Some(Val(nearest.ret)[3]),
              PointCache |-> pc, tree |-> t, intersect_calls |-> 0]
        ELSE IF z_raises
        THEN [raised |-> TRUE, ret |-> None, PointCache |-> pc, tree |-> t,
              intersect_calls |-> 1]
        ELSE IF z_val = None
        THEN [raised |-> FALSE, ret |-> None, PointCache |-> pc, tree |-> t,
              intersect_calls |-> 1]
        ELSE LET ins == insert_cache_point(pc, t, x, y, Val(z_val))
             IN  [raised |-> FALSE, ret |-> z_val,
                  PointCache |-> IF ins.raised
                                 THEN Some(Append(CachePoints(ins.PointCache),
                                                  <<x, y, Val(z_val)>>))
                                 ELSE ins.PointCache,
                  tree |-> ins.tree, intersect_calls |-> 1]

\* The geometry of the selected faces, as far as the hash string and the
\* bounds of the index depend on it.
\* The signature of the collected faces: the counts, the bounding box
\* <<XMin, XMax, YMin, YMax>> and the area in hundredths of a mm2.
Geometry(nfaces, nedges, nvertexes, bb, area) ==
    [NumFaces |-> nfaces, NumEdges |-> nedges, NumVertexes |-> nvertexes,
     bb |-> bb, Area |-> area]

\* f"{Area:.1f}": the area printed in tenths, rounded to the nearest.
FormatArea(area) == (area + 5) \div 10

\* A variant of _get_hash_string that leaves the vertex count out.
get_hash_string_without_vertexes(g) ==
    IF g.NumFaces = 0 THEN <<"Base", "Geometry=None">>
    ELSE <<"Base", "NumFaces", g.NumFaces, "NumEdges", g.NumEdges,
           "BoundBox", g.bb, "Area", FormatArea(g.Area)>>

get_hash_string(g) ==
    IF g.NumFaces = 0 THEN <<"Base", "Geometry=None">>
    ELSE <<"Base", "NumFaces", g.NumFaces, "NumEdges", g.NumEdges,
           "NumVertexes", g.NumVertexes, "BoundBox", g.bb,
           "Area", FormatArea(g.Area)>>

\* hashlib.sha256(...).hexdigest(): a deterministic digest, taken to be free
\* of collisions.
compute_state_hash(g) == [sha256 |-> get_hash_string(g)]

TaggedSegment(kind, command, pointlist) ==
    [kind |-> kind, command |-> command, pointlist |-> pointlist]

\* A variant that replaces a query without result by 0.
SurfaceOrZero(z_surface, safe) == IF z_surface = None THEN 0 ELSE Val(z_surface)

\* Lines 727-731: a query without result is replaced by the safe height.
SurfaceOrSafe(z_surface, safe) == IF z_surface = None THEN safe ELSE Val(z_surface)

\* A variant without the clamp.
Unclamped(z, safe) == z

\* Lines 744-745
ClampToSafe(z, safe) == IF z > safe THEN safe ELSE z

\* Lines 727-745
final_z(z_surface, point, zmin, safe) ==
    LET internal_offset == point.z - zmin
    IN  ClampToSafe(SurfaceOrSafe(z_surface, safe) + internal_offset, safe)

\* An entry of newcommandlist: the command, and as history the point it was
\* made for, whether get_surface_z was called for it and what it returned.
Emitted(cmd, point, queried, z_surface) ==
    [cmd |-> cmd, point |-> point, queried |-> queried, z_surface |-> z_surface]

NoCall == [called |-> FALSE]

\* Inputs of opExecute.
MaxSegs == 2

\* The loop yields to the GUI every 100 points (line 763); the period is
\* scaled to the lengths of the paths tried.
YieldPeriod == 2

NoFaces == Geometry(0, 0, 0, <<0, 0, 0, 0>>, 0)

\* Four faces in a 2 x 2 grid: 12 edges, 9 vertexes.
FaceA == Geometry(4, 12, 9, <<0, 2 * MM, 0, 2 * MM>>, 400)

\* Four faces in a closed ring: 12 edges, 8 vertexes.
FaceB == Geometry(4, 12, 8, <<0, 2 * MM, 0, 2 * MM>>, 400)

\* The geometries tried.
Geometries == {NoFaces, FaceA, FaceB}

pA == Vector(0, 0, 0)

pB == Vector(MM, 0, MM)

pC == Vector(2 * MM, 2 * MM, 0 - MM)

pOut == Vector(3 * MM, MM, 0)

MotionSegment(kind, pl) ==
    TaggedSegment(kind, Cmd("G1", Some(pl[Len(pl)].x), Some(pl[Len(pl)].y),
                            Some(pl[Len(pl)].z)), pl)

SegmentChoices ==
    {TaggedSegment("OTHER", Cmd("M3", None, None, None), <<>>),
     MotionSegment("IS_HIGH", <<pA, pB>>)}
    \cup {MotionSegment("IS_ON_PLANE", pl) : pl \in {<<pA, pB>>, <<pC>>, <<pOut>>}}

SegmentLists == SeqsUpTo(SegmentChoices, MaxSegs)

OracleResults == {None, Some(MM), Some(3 * MM)}

\* The paths of the repeated computations: one inside the bounds of the
\* faces, one that comes five times to a point outside them.
RecomputeLists ==
    {<<MotionSegment("IS_ON_PLANE", <<pA, pB>>)>>,
     <<MotionSegment("IS_ON_PLANE", <<pOut, pOut, pOut, pOut, pOut>>)>>}

\* The values of CacheGrid tried.
CacheGrids == {MM, 2 * MM}

\* What a document saved by an earlier session restores.
PersistedCaches ==
    {Some(<< <<0, 0, MM>> >>),
     Some(<< <<2 * MM, 2 * MM, MM>>, <<3 * MM, MM, MM>>, <<3 * MM, MM, MM>> >>)}

OpInit ==
    /\ p_pc = "new"
    /\ PointCache = None
    /\ CacheStateHash = None
    /\ BlockCacheInvalidation = FALSE
    /\ runtime_quadtree = None
    /\ faces = NoFaces
    /\ CacheGrid = MM
    /\ SafeHeight = 2 * MM
    /\ OpStockZMax = MM
    /\ segments = <<>>
    /\ z_original_min = 0
    /\ newcommandlist = <<>>
    /\ seg_i = 1
    /\ pt_i = 1
    /\ gsz = NoCall
    /\ p_exc = "none"
    /\ progress_counter = 0
    /\ GuiUp = FALSE
    /\ invocations = 0
    /\ sample_hash = <<>>

\* The invocations of opExecute tried one after the other.
MaxRuns == 3

\* opExecute is not running.
Idle == p_pc \in {"new", "idle"}

\* onDocumentRestored: the properties hold what the document saved, the
\* live index is gone.  sample_hash is a history variable: for every entry
\* of the points list, the hash of the geometry it was computed against;
\* the samples saved were computed against the geometry of the saved hash.
DocumentRestored ==
    /\ p_pc = "new"
    /\ p_pc' = "idle"
    /\ \E pc \in PersistedCaches, g \in {FaceA, FaceB}, b \in BOOLEAN :
          /\ PointCache' = pc
          /\ CacheStateHash' = Some(compute_state_hash(g))
          /\ BlockCacheInvalidation' = b
          /\ sample_hash' = [i \in 1 .. Len(CachePoints(pc)) |->
                                 Some(compute_state_hash(g))]
    /\ runtime_quadtree' = None
    /\ UNCHANGED loopVars

\* getFields (lines 1362-1367): the task panel writes the values of its
\* widgets to the properties, between two computations.
getFields ==
    /\ Idle
    /\ \E b \in BOOLEAN, grid \in CacheGrids :
          /\ BlockCacheInvalidation' = b
          /\ CacheGrid' = grid
          /\ <<b, grid>> # <<BlockCacheInvalidation, CacheGrid>>
    /\ UNCHANGED <<p_pc, PointCache, CacheStateHash, runtime_quadtree, sample_hash,
                   faces, SafeHeight, OpStockZMax, segments, z_original_min,
                   newcommandlist, seg_i, pt_i, gsz, p_exc, progress_counter,
                   GuiUp, invocations>>

\* "all_points" of lines 634-636, as a set
AllPoints(segs) ==
    UNION {{segs[i].pointlist[j] : j \in 1 .. Len(segs[i].pointlist)} :
           i \in 1 .. Len(segs)}

\* opExecute up to the projection loop (lines 527-647)
opExecuteStart(limit, lists, guis) ==
    /\ Idle
    /\ invocations < limit
    /\ invocations' = invocations + 1
    /\ gsz' = NoCall
    /\ \E ShapeID \in {"endmill", "ballend"}, g \in Geometries,
          basePathOk \in BOOLEAN, segs \in lists, gui \in guis :
          IF ShapeID # "endmill"
          THEN /\ p_pc' = "returned"
               /\ UNCHANGED <<objVars, faces, CacheGrid, SafeHeight, OpStockZMax,
                              segments, z_original_min, newcommandlist, seg_i,
                              pt_i, p_exc, progress_counter, GuiUp>>
          ELSE LET current_hash == Some(compute_state_hash(g))
                   clear == current_hash # CacheStateHash /\ ~BlockCacheInvalidation
                   pc1 == IF clear THEN None ELSE PointCache
                   qt1 == IF clear THEN None ELSE runtime_quadtree
                   rb == rebuild_quadtree(pc1, Some(g.bb))
                   pts == AllPoints(segs)
               IN  /\ CacheStateHash' = current_hash
                   /\ PointCache' = pc1
                   /\ sample_hash' = IF clear THEN <<>> ELSE sample_hash
                   /\ faces' = g
                   /\ UNCHANGED <<BlockCacheInvalidation, CacheGrid, SafeHeight,
                                  OpStockZMax>>
                   /\ IF g.NumFaces = 0 \/ ~basePathOk
                      THEN /\ p_pc' = "returned"
                           /\ runtime_quadtree' = qt1
                           /\ UNCHANGED <<segments, z_original_min, newcommandlist,
                                          seg_i, pt_i, p_exc, progress_counter,
                                          GuiUp>>
                      ELSE /\ p_pc' = IF rb.raised THEN "raised" ELSE "loop"
                           /\ p_exc' = IF rb.raised THEN "insert" ELSE "none"
                           /\ progress_counter' = 0
                           /\ GuiUp' = gui
                           /\ runtime_quadtree' = IF rb.raised THEN qt1
                                                  ELSE Some(rb.tree)
                           /\ segments' = segs
                           /\ z_original_min' =
                                IF pts # {} THEN MinOver({pt.z : pt \in pts}) ELSE 0
                           /\ newcommandlist' = <<>>
                           /\ seg_i' = 1
                           /\ pt_i' = 1

\* Lines 699-719: a segment that is no motion, or has no points, passes its
\* command through.
OE_PassThrough ==
    /\ p_pc = "loop"
    /\ seg_i <= Len(segments)
    /\ LET seg == segments[seg_i]
       IN  /\ seg.kind = "OTHER" \/ seg.pointlist = <<>>
           /\ newcommandlist' =
                Append(newcommandlist, Emitted(seg.command, None, FALSE, None))
    /\ seg_i' = seg_i + 1
    /\ UNCHANGED <<p_pc, objVars, faces, CacheGrid, SafeHeight, OpStockZMax,
                   segments, z_original_min, pt_i, gsz, p_exc, progress_counter,
                   GuiUp, invocations>>

\* Lines 721-759: one point of a motion segment.  gsz is a history variable:
\* the call of get_surface_z the step made, when it returned, with the cache
\* and the index before it; p_exc names the call that raised, when one did.
opExecutePoint(results, raises) ==
    /\ p_pc = "loop"
    /\ seg_i <= Len(segments)
    /\ segments[seg_i].kind # "OTHER"
    /\ segments[seg_i].pointlist # <<>>
    /\ \E z_val \in results, z_raises \in raises :
          LET seg == segments[seg_i]
              point == seg.pointlist[pt_i]
              on_plane == seg.kind = "IS_ON_PLANE"
              r == get_surface_z(PointCache, Val(runtime_quadtree), CacheGrid,
                                 point.x, point.y, z_val, z_raises)
              z_surface == IF on_plane THEN r.ret ELSE Some(point.z + OpStockZMax)
              z == final_z(z_surface, point, z_original_min, SafeHeight)
              count == progress_counter + 1
          IN  IF on_plane /\ (runtime_quadtree = None \/ r.raised)
              THEN /\ p_pc' = "raised"
                   /\ p_exc' = IF runtime_quadtree = None THEN "AttributeError"
                               ELSE IF r.intersect_calls = 0 THEN "nearest"
                               ELSE "intersect_z"
                   /\ gsz' = NoCall
                   /\ UNCHANGED <<objVars, faces, CacheGrid, SafeHeight, OpStockZMax,
                                  segments, z_original_min, newcommandlist, seg_i,
                                  pt_i, progress_counter, GuiUp, invocations>>
              ELSE /\ newcommandlist' =
                        Append(newcommandlist,
                               Emitted(Cmd("G1", Some(point.x), Some(point.y), Some(z)),
                                       Some(point), on_plane, z_surface))
                   /\ IF on_plane
                      THEN /\ PointCache' = r.PointCache
                           /\ sample_hash' =
                                [i \in 1 .. Len(CachePoints(r.PointCache)) |->
                                    IF i <= Len(sample_hash) THEN sample_hash[i]
                                    ELSE Some(compute_state_hash(faces))]
                           /\ runtime_quadtree' = Some(r.tree)
                           /\ gsz' = [called |-> TRUE, x |-> point.x, y |-> point.y,
                                      ret |-> r.ret,
                                      intersect_calls |-> r.intersect_calls,
                                      z_val |-> z_val,
                                      cache_before |-> PointCache,
                                      tree_before |-> Val(runtime_quadtree)]
                      ELSE /\ gsz' = NoCall
                           /\ UNCHANGED <<PointCache, runtime_quadtree, sample_hash>>
                   /\ IF pt_i < Len(seg.pointlist)
                      THEN pt_i' = pt_i + 1 /\ seg_i' = seg_i
                      ELSE pt_i' = 1 /\ seg_i' = seg_i + 1
                   /\ progress_counter' = count
                   /\ p_pc' = IF count % YieldPeriod = 0 /\ GuiUp THEN "yield"
                              ELSE "loop"
                   /\ UNCHANGED <<CacheStateHash, BlockCacheInvalidation, faces,
                                  CacheGrid, SafeHeight, OpStockZMax, segments,
                                  z_original_min, p_exc, GuiUp, invocations>>

\* A computation after the document was created or loaded, on the paths of
\* SegmentLists, with every outcome of the intersection.
OE_Start == opExecuteStart(1, SegmentLists, BOOLEAN)

OE_Point == opExecutePoint(OracleResults, BOOLEAN)

\* One of MaxRuns computations in a row, on the paths of RecomputeLists,
\* without GUI and with one outcome of the intersection.
RC_Start == opExecuteStart(MaxRuns, RecomputeLists, {FALSE})

RC_Point == opExecutePoint({Some(MM)}, {FALSE})

\* FreeCADGui.updateGui() (line 765) handles the pending GUI events.  One of
\* them may be the click on "Clear Point Cache" of the task panel
\* (clear_point_cache, lines 1337-1339), which calls _clear_cache.  gsz, the
\* record of the query of the last step, is dropped with the cache it
\* describes.
GUI_ClearPointCache ==
    /\ p_pc = "yield"
    /\ IF ~BlockCacheInvalidation
       THEN PointCache' = None /\ runtime_quadtree' = None /\ sample_hash' = <<>>
       ELSE UNCHANGED <<PointCache, runtime_quadtree, sample_hash>>
    /\ gsz' = NoCall
    /\ UNCHANGED <<p_pc, CacheStateHash, BlockCacheInvalidation, faces, CacheGrid,
                   SafeHeight, OpStockZMax, segments, z_original_min,
                   newcommandlist, seg_i, pt_i, p_exc, progress_counter, GuiUp,
                   invocations>>

\* updateGui returns and the loop goes on.
OE_Resume ==
    /\ p_pc = "yield"
    /\ p_pc' = "loop"
    /\ UNCHANGED <<objVars, loopVars>>

\* opExecute is left, by a return or by an exception: its locals are gone,
\* the properties and the live index stay.
OE_Return ==
    /\ p_pc \in {"done", "returned", "raised"}
    /\ p_pc' = "idle"
    /\ segments' = <<>>
    /\ z_original_min' = 0
    /\ newcommandlist' = <<>>
    /\ seg_i' = 1
    /\ pt_i' = 1
    /\ gsz' = NoCall
    /\ p_exc' = "none"
    /\ progress_counter' = 0
    /\ GuiUp' = FALSE
    /\ UNCHANGED <<objVars, faces, CacheGrid, SafeHeight, OpStockZMax, invocations>>

\* Lines 781-793: the loop is over; the commands go to process_stepdown.
OE_Finish ==
    /\ p_pc = "loop"
    /\ seg_i > Len(segments)
    /\ p_pc' = "done"
    /\ UNCHANGED <<objVars, loopVars>>

\* The samples of s in the order of the list.
SamplesOf(s) == {s[i] : i \in 1 .. Len(s)}

DistSq(pt, q) == (pt[1] - q[1]) * (pt[1] - q[1]) + (pt[2] - q[2]) * (pt[2] - q[2])

----------------------------------------------------------------------------
(* is_on_plane, is_motion and discretize_commands (ZFace.py).  Lengths are *)
(* in units of the tolerance, as in the stepdown part.  Whether            *)
(* PathGeom.edgeForCmd builds an edge is the answer of the host.           *)

\* PathGeom.CmdMoveStraight + PathGeom.CmdMoveArc + PathGeom.CmdMoveRapid
CmdMove == {"G1", "G01", "G2", "G02", "G3", "G03", "G0", "G00"}

is_motion(cmd) == cmd.Name \in CmdMove

\* "'Z' in cmd.Parameters and cmd.Z": a Z of 0 counts as no Z.
is_on_plane(cmd, prev_location) ==
    IF cmd.z # None /\ Val(cmd.z) # 0
    THEN isRoughly(Val(cmd.z), 0)
    ELSE isRoughly(prev_location.z, 0)

\* Lines 848-853
Classify(c, location) ==
    IF ~is_motion(c) THEN "OTHER"
    ELSE IF is_on_plane(c, location) THEN "IS_ON_PLANE"
    ELSE "IS_HIGH"

\* Lines 872-874
UpdateLocation(location, c) ==
    Vector(IF c.x # None THEN Val(c.x) ELSE location.x,
           IF c.y # None THEN Val(c.y) ELSE location.y,
           IF c.z # None THEN Val(c.z) ELSE location.z)

\* The points of a discretized edge, by its two ends.
Discretized(location, c) == <<location, UpdateLocation(location, c)>>

\* Inputs.
MaxCmds == 2

DCNames == {"G0", "G1", "G2", "M3"}

DCZ == {None, Some(0), Some(Tolerance), Some(Grid)}

DCCmds == {Cmd(n, x, None, z) : n \in DCNames, x \in {None, Some(Grid)}, z \in DCZ}

DCStarts == {Vector(0, 0, 0), Vector(0, 0, Grid)}

DCInit ==
    /\ dc_pc = "idle"
    /\ dc_commands = <<>>
    /\ temp_location = Vector(0, 0, 0)
    /\ dc_segments = <<>>
    /\ dc_i = 1
    /\ dc_seen = <<>>

\* discretize_commands is entered: lines 840-845.
DC_Call ==
    /\ dc_pc = "idle"
    /\ \E cmds \in SeqsUpTo(DCCmds, MaxCmds), start_location \in DCStarts :
          /\ dc_commands' = cmds
          /\ temp_location' = start_location
    /\ dc_segments' = <<>>
    /\ dc_i' = 1
    /\ dc_seen' = <<>>
    /\ dc_pc' = "for"

\* One iteration of "for c in commands": lines 846-874.  dc_seen is a
\* history variable: the tracked location each command was classified at and
\* whether the host built its edge.
DC_Command ==
    /\ dc_pc = "for"
    /\ dc_i <= Len(dc_commands)
    /\ LET c == dc_commands[dc_i]
           kind == Classify(c, temp_location)
       IN  /\ \E edge \in IF is_motion(c) THEN BOOLEAN ELSE {FALSE} :
                 /\ dc_segments' =
                      IF is_motion(c)
                      THEN IF edge
                           THEN Append(dc_segments,
                                       TaggedSegment(kind, c,
                                                     Discretized(temp_location, c)))
                           ELSE dc_segments
                      ELSE Append(dc_segments, TaggedSegment(kind, c, <<>>))
                 /\ dc_seen' = Append(dc_seen, [location |-> temp_location,
                                                edge |-> edge,
                                                emitted |-> Len(dc_segments')])
           /\ temp_location' = UpdateLocation(temp_location, c)
    /\ dc_i' = dc_i + 1
    /\ UNCHANGED <<dc_pc, dc_commands>>

\* The loop is over and segments is returned: line 875.
DC_Return ==
    /\ dc_pc = "for"
    /\ dc_i > Len(dc_commands)
    /\ dc_pc' = "done"
    /\ UNCHANGED <<dc_commands, temp_location, dc_segments, dc_i, dc_seen>>

----------------------------------------------------------------------------
(* Specifications *)

Init == FeedInit /\ SDInit /\ IZInit /\ QTInit /\ OpInit /\ DCInit

NextFeed == FeedCall /\ UNCHANGED <<sdVars, izVars, qtVars, opVars, dcVars>>

SpecFeed == Init /\ [][NextFeed]_vars

NextStepdown ==
    \/ SD_Call /\ UNCHANGED <<feedVars, izVars, qtVars, opVars, dcVars>>
    \/ SD_Pass /\ UNCHANGED <<feedVars, izVars, qtVars, opVars, dcVars>>
    \/ SD_Return /\ UNCHANGED <<feedVars, izVars, qtVars, opVars, dcVars>>

SpecStepdown == Init /\ [][NextStepdown]_vars

\* The interpreter runs a call that has begun until it returns or raises.
SpecStepdownFair ==
    /\ Init
    /\ [][NextStepdown]_vars
    /\ WF_vars(SD_Pass /\ UNCHANGED <<feedVars, izVars, qtVars, opVars, dcVars>>)
    /\ WF_vars(SD_Return /\ UNCHANGED <<feedVars, izVars, qtVars, opVars, dcVars>>)

NextIntersect ==
    \/ IZ_Call /\ UNCHANGED <<feedVars, sdVars, qtVars, opVars, dcVars>>
    \/ IZ_Attempt /\ UNCHANGED <<feedVars, sdVars, qtVars, opVars, dcVars>>
    \/ IZ_ReturnNone /\ UNCHANGED <<feedVars, sdVars, qtVars, opVars, dcVars>>

SpecIntersect == Init /\ [][NextIntersect]_vars

NextQuadTree ==
    \/ QT_New /\ UNCHANGED <<feedVars, sdVars, izVars, opVars, dcVars>>
    \/ QT_Insert /\ UNCHANGED <<feedVars, sdVars, izVars, opVars, dcVars>>
    \/ QT_Nearest /\ UNCHANGED <<feedVars, sdVars, izVars, opVars, dcVars>>

SpecQuadTree == Init /\ [][NextQuadTree]_vars

NextProject ==
    \/ DocumentRestored /\ UNCHANGED <<feedVars, sdVars, izVars, qtVars, dcVars>>
    \/ OE_Start /\ UNCHANGED <<feedVars, sdVars, izVars, qtVars, dcVars>>
    \/ OE_PassThrough /\ UNCHANGED <<feedVars, sdVars, izVars, qtVars, dcVars>>
    \/ OE_Point /\ UNCHANGED <<feedVars, sdVars, izVars, qtVars, dcVars>>
    \/ GUI_ClearPointCache /\ UNCHANGED <<feedVars, sdVars, izVars, qtVars, dcVars>>
    \/ OE_Resume /\ UNCHANGED <<feedVars, sdVars, izVars, qtVars, dcVars>>
    \/ OE_Finish /\ UNCHANGED <<feedVars, sdVars, izVars, qtVars, dcVars>>

SpecProject == Init /\ [][NextProject]_vars

\* Computations in a row on one object, the properties edited in between.
NextRecompute ==
    \/ getFields /\ UNCHANGED <<feedVars, sdVars, izVars, qtVars, dcVars>>
    \/ RC_Start /\ UNCHANGED <<feedVars, sdVars, izVars, qtVars, dcVars>>
    \/ RC_Point /\ UNCHANGED <<feedVars, sdVars, izVars, qtVars, dcVars>>
    \/ OE_Finish /\ UNCHANGED <<feedVars, sdVars, izVars, qtVars, dcVars>>
    \/ OE_Return /\ UNCHANGED <<feedVars, sdVars, izVars, qtVars, dcVars>>

SpecRecompute == Init /\ [][NextRecompute]_vars

NextDiscretize ==
    \/ DC_Call /\ UNCHANGED <<feedVars, sdVars, izVars, qtVars, opVars>>
    \/ DC_Command /\ UNCHANGED <<feedVars, sdVars, izVars, qtVars, opVars>>
    \/ DC_Return /\ UNCHANGED <<feedVars, sdVars, izVars, qtVars, opVars>>

SpecDiscretize == Init /\ [][NextDiscretize]_vars

----------------------------------------------------------------------------
(* Properties of process_stepdown and interpolate_feedrate *)

\* The value of axis a ("X", "Y" or "Z") after the first n emitted commands:
\* that of the last of them carrying the axis.
AxisAfter(cmds, n, a) ==
    LET have == {k \in 1 .. n : cmds[k][a] # None}
    IN  IF have = {} THEN None
        ELSE cmds[CHOOSE k \in have : \A j \in have : j <= k][a]

PosKnownAfter(cmds, n) ==
    \A a \in {"X", "Y", "Z"} : AxisAfter(cmds, n, a) # None

PosAfter(cmds, n) ==
    Vector(Val(AxisAfter(cmds, n, "X")), Val(AxisAfter(cmds, n, "Y")),
           Val(AxisAfter(cmds, n, "Z")))

\* C2: in every pass of process_stepdown every emitted command that carries
\* a Z (start-of-pass positioning moves and per-point moves alike) has Z not
\* below the depth ceiling limit_depth of the pass that emitted it.
C2_EmittedZNotBelowCeiling ==
    \A i \in 1 .. Len(commands) :
        commands[i].Z # None => Val(commands[i].Z) >= commands[i].limit

\* C3: the feed of every active cutting move emitted by process_stepdown is
\* interpolate_feedrate from the position of the immediately preceding
\* emitted move to this move's position, so that the vertical descent rate
\* along the move actually travelled never exceeds v_feed.
C3_CutFeedFromPrecedingMove ==
    \A i \in 1 .. Len(commands) :
        (commands[i].branch = "cut" /\ PosKnownAfter(commands, i - 1)) =>
            LET p0 == PosAfter(commands, i - 1)
                p1 == PosAfter(commands, i)
            IN  /\ Val(commands[i].F) = interpolate_feedrate(p0, p1, h_feed, v_feed)
                /\ p1.z < p0.z => VCompLeq(Val(commands[i].F), p0, p1, v_feed)

\* C4: the feed F returned by interpolate_feedrate has horizontal component
\* F*d_xy/d <= h_feed, and for a descending move (dz <= 0) vertical
\* component F*|dz|/d <= v_feed.
C4_FeedComponentsBounded ==
    f_pc = "done" =>
        /\ HCompLeq(Val(f_F), f_p0, f_p1, f_hfeed)
        /\ f_p1.z - f_p0.z <= 0 => VCompLeq(Val(f_F), f_p0, f_p1, f_vfeed)

FeedEq(a, b) == a.n * b.d = b.n * a.d

\* The feed the table of C19 gives for the displacement (dx, dy, dz).
FeedTable(dx, dy, dz, horiz_feed, vert_feed) ==
    LET xy2 == dx * dx + dy * dy
        d2  == xy2 + dz * dz
        Fh  == Feed2(horiz_feed * horiz_feed * d2, xy2)
        Fv  == Feed2(vert_feed * vert_feed * d2, dz * dz)
    IN  IF d2 = 0 THEN FeedOf(vert_feed)
        ELSE IF xy2 = 0
             THEN IF dz > 0 THEN FeedOf(horiz_feed) ELSE FeedOf(vert_feed)
        ELSE IF dz = 0 THEN FeedOf(horiz_feed)
        ELSE IF dz > 0 THEN Fh
        ELSE IF FeedLeq(Fh, Fv) THEN Fh ELSE Fv

\* C19, as stated: interpolate_feedrate returns vert_feed for a zero-length
\* move, horiz_feed for a pure vertical ascent, vert_feed for a pure
\* vertical descent, horiz_feed for a pure horizontal move,
\* horiz_feed*d/d_xy for a diagonal ascent and
\* min(horiz_feed*d/d_xy, vert_feed*d/|dz|) for a diagonal descent.
C19_FeedByExactDirection ==
    f_pc = "done" =>
        FeedEq(Val(f_F),
               FeedTable(f_p1.x - f_p0.x, f_p1.y - f_p0.y, f_p1.z - f_p0.z,
                         f_hfeed, f_vfeed))

\* The Z of input point k: that of the last of the first k input commands
\* carrying a Z, else that of the start point.
TrackedZ(k) ==
    LET have == {j \in 1 .. k : path[j].z # None}
    IN  IF have = {} THEN Val(startPoint).z
        ELSE Val(path[CHOOSE j \in have : \A i \in have : i <= j].z)

Clamped(z, limit) == IF isLower(Some(z), limit) THEN limit ELSE z

\* C17, as stated: for every input point whose clamped Z is not below
\* ceiling + step_depth + rapid_margin the emitted command is a G1 with feed
\* h_rapid and Z exactly rapid_margin above the point's own clamped Z; every
\* other point is emitted at its clamped Z with a feed from
\* interpolate_feedrate.  Stated of the moves of the first pass, whose
\* commands follow the two start moves in the order of the input.
C17_RapidRaisesOwnZByMargin ==
    (passes >= 1 /\ startPoint # None) =>
        \A k \in {j \in 1 .. Len(path) : path[j].Name = "G1"} :
            LET c  == commands[2 + k]
                cz == Clamped(TrackedZ(k), c.limit)
            IN  IF ~isLower(Some(cz), c.limit + step_depth + rapid_margin)
                THEN /\ c.Name = "G1"
                     /\ c.F = Some(FeedOf(h_rapid))
                     /\ c.Z = Some(cz + rapid_margin)
                ELSE /\ c.Z = Some(cz)
                     /\ c.branch = "cut"

\* The commands a pass appends.
Appended == SubSeq(commands', Len(commands) + 1, Len(commands'))

\* The start and the end of the path coincide in X and Y within tolerance.
StartEndCoincide ==
    /\ endPoint # None
    /\ Abs(Val(startPoint).x - Val(endPoint).x) <= Tolerance
    /\ Abs(Val(startPoint).y - Val(endPoint).y) <= Tolerance

\* Input command k is a Z-only move to clearance or safe height.
ZOnlyRetract(k) ==
    /\ path[k].x = None
    /\ path[k].y = None
    /\ path[k].z \in {Some(clearance_height), Some(safe_height)}

StartPair(limit) ==
    << OutCmd("G0", None, None, Some(Val(startPoint).z), None, "start", limit),
       OutCmd("G0", Some(Val(startPoint).x), Some(Val(startPoint).y), None, None,
              "start", limit) >>

\* C18: a pass begins with the G0 Z / G0 XY pair to the start point when it
\* is the first pass, and a later pass begins with it if and only if start
\* and end XY of the path do not coincide within tolerance; a later pass of
\* a closed path emits no G0 and leaves out the Z-only input moves to
\* clearance or safe height, every other input command having its G1.
C18_StartPairUnlessClosedLaterPass ==
    [][(sd_pc = "while" /\ repeat /\ startPoint # None /\ passes' = passes + 1) =>
          IF firstStep \/ ~StartEndCoincide
          THEN /\ SubSeq(Appended, 1, 2) = StartPair(limit_depth')
               /\ Len(Appended) = 2 + Len(path)
               /\ \A i \in 3 .. Len(Appended) : Appended[i].Name = "G1"
          ELSE /\ \A i \in 1 .. Len(Appended) : Appended[i].Name = "G1"
               /\ Len(Appended) =
                    Cardinality({k \in 1 .. Len(path) : ~ZOnlyRetract(k)})]_vars

\* A later pass of a closed path has left out a Z-only move to clearance
\* height and emitted the other command of the path.
C18_Witness ==
    /\ passes >= 2
    /\ skipZ
    /\ \E k \in 1 .. Len(path) : ZOnlyRetract(k)
    /\ Len(commands) = 2 + Len(path) + (passes - 1) * (Len(path) - 1)

\* The Z values the commands of the input path carry.
InputZs == {Val(path[k].z) : k \in {j \in 1 .. Len(path) : path[j].z # None}}

LowestZ == CHOOSE m \in InputZs : \A z \in InputZs : m <= z

\* The commands emitted by the last pass made.
LastPass == {commands[i] : i \in {j \in 1 .. Len(commands) :
                                      commands[j].limit = limit_depth}}

Returned == sd_pc = "done" /\ startPoint # None

CeilDiv(a, b) == (a + b - 1) \div b

\* C12, as stated: the number of passes process_stepdown performs is at most
\* ceil(|start_depth| / step_depth) + 1.
C12_PassesBoundedByStartDepth ==
    passes <= CeilDiv(Abs(start_depth), step_depth) + 1

\* C12, amended: the number of passes is at most
\* max(1, ceil((start_depth - zmin) / step_depth)), zmin the lowest Z of the
\* input path; a path without any Z ends in its first pass.
C12_PassesBoundedByDepthOfPath ==
    passes <= IF InputZs = {} THEN 1
              ELSE Max2(1, CeilDiv(start_depth - LowestZ, step_depth))

\* A call has returned after three passes or more, as many as the bound.
C12_Witness ==
    /\ Returned
    /\ passes >= 3
    /\ passes = CeilDiv(start_depth - LowestZ, step_depth)

RECURSIVE NotSkipped(_, _)
NotSkipped(k, skip) ==
    IF k > Len(path) THEN <<>>
    ELSE IF skip /\ ZOnlyRetract(k) THEN NotSkipped(k + 1, skip)
    ELSE <<k>> \o NotSkipped(k + 1, skip)

\* The X and the Y of the cursor after input command k: the last explicit
\* value up to k, else that of the start point.
RECURSIVE Cursor(_, _)
Cursor(k, a) ==
    IF k = 0 THEN Val(startPoint)[a]
    ELSE IF path[k][a] # None THEN Val(path[k][a])
    ELSE Cursor(k - 1, a)

\* The output command c is the input command cmd as it was.
Verbatim(c, cmd) ==
    /\ c.Name = cmd.Name
    /\ c.X = cmd.x /\ c.Y = cmd.y /\ c.Z = cmd.z
    /\ c.F = None

\* C30: the output of process_stepdown consists of G0 commands to the start
\* point and of G1 commands carrying X, Y, Z and F.  A pass appends, after
\* its G0 pair if it has one, one G1 for every input command it does not
\* skip, non-motion commands included, at the X and Y of the cursor; no
\* input command is in the output as it was.
C30_OutputIsStartMovesAndFeedMoves ==
    [][(sd_pc = "while" /\ repeat /\ startPoint # None /\ passes' = passes + 1) =>
          LET n0 == IF skipZ' THEN 0 ELSE 2
              kept == NotSkipped(1, skipZ')
          IN  /\ Len(Appended) = n0 + Len(kept)
              /\ n0 = 2 => SubSeq(Appended, 1, 2) = StartPair(limit_depth')
              /\ \A j \in 1 .. Len(kept) :
                    LET c == Appended[n0 + j]
                    IN  /\ c.Name = "G1"
                        /\ c.X = Some(Cursor(kept[j], "x"))
                        /\ c.Y = Some(Cursor(kept[j], "y"))
                        /\ c.Z # None
                        /\ c.F # None
              /\ \A i \in 1 .. Len(Appended), k \in 1 .. Len(path) :
                    ~Verbatim(Appended[i], path[k])]_vars

\* Two passes have been through a path that holds a non-motion command, and
\* the output has a G1 for it in each.
C30_Witness ==
    /\ sd_pc = "done"
    /\ passes >= 2
    /\ \E k \in 1 .. Len(path) : path[k].Name = "M3"
    /\ Len(commands) = passes * Len(path) + (IF skipZ THEN 2 ELSE 2 * passes)
    /\ \A i \in 1 .. Len(commands) : commands[i].Name \in {"G0", "G1"}

----------------------------------------------------------------------------
(* Properties of intersect_z *)

\* The order of strategies as the specification lists it: the intersection
\* (direct or approximated), the rotation of the tool, the surface (merged
\* or per face) and the tool volume (cylinder or polygon).
ListedOrder ==
    << [approx |-> FALSE, rot |-> 0,   merged |-> TRUE,  poly |-> FALSE],
       [approx |-> FALSE, rot |-> 180, merged |-> TRUE,  poly |-> FALSE],
       [approx |-> FALSE, rot |-> 45,  merged |-> TRUE,  poly |-> FALSE],
       [approx |-> TRUE,  rot |-> 0,   merged |-> TRUE,  poly |-> FALSE],
       [approx |-> TRUE,  rot |-> 180, merged |-> TRUE,  poly |-> FALSE],
       [approx |-> FALSE, rot |-> 0,   merged |-> FALSE, poly |-> FALSE],
       [approx |-> FALSE, rot |-> 0,   merged |-> TRUE,  poly |-> TRUE],
       [approx |-> FALSE, rot |-> 0,   merged |-> FALSE, poly |-> TRUE] >>

\* C8: intersect_z tries its eight strategies in the listed order, makes no
\* attempt after the first one that reports success, and never makes more
\* than 8 attempts for one query.
C8_FixedOrderStopAtSuccess ==
    /\ Len(iz_log) <= 8
    /\ \A k \in 1 .. Len(iz_log) :
          /\ iz_log[k].run.use_approximation = ListedOrder[k].approx
          /\ iz_log[k].run.rotate_z = ListedOrder[k].rot
          /\ iz_log[k].run.use_compound = ListedOrder[k].merged
          /\ iz_log[k].run.use_poly_cylinder = ListedOrder[k].poly
          /\ k < Len(iz_log) => ~iz_log[k].success

\* A query that succeeded at a late strategy, after failed attempts.
C8_Witness ==
    /\ iz_pc = "done"
    /\ Len(iz_log) = 6
    /\ iz_log[6].success

\* C9: if all eight attempts fail validation but at least one returned a
\* non-null Z guess, intersect_z returns the maximum of those guesses; it
\* returns None only if every attempt returned no Z.
C9_BestGuessWhenAllFail ==
    (iz_pc = "done" /\ \A k \in 1 .. Len(iz_log) : ~iz_log[k].success) =>
        IF zmaxs # <<>> THEN iz_ret = Some(MaxOf(zmaxs)) ELSE iz_ret = None

\* C27, as stated: a run in per-face mode computes its result from exactly
\* the valid sections with at least one edge: it returns (False, None) only
\* when no face is touched, and else the Z it returns is the maximum ZMax
\* over the touching sections.
C27_PerFaceUsesTouchingSections ==
    (iz_log # <<>> /\ ~iz_log[Len(iz_log)].run.use_compound) =>
        LET last == iz_log[Len(iz_log)]
        IN  /\ (~last.success /\ last.z = None) => iz_touched = None
            /\ iz_touched # None => last.z = iz_touched

----------------------------------------------------------------------------
(* Properties of QuadTree.nearest *)

\* C5: after every sequence of inserts and for every query point, nearest
\* returns a stored sample whose distance to the query is the least over
\* the stored samples, with that distance, and returns None exactly when
\* no sample is stored.
C5_NearestIsBruteForce ==
    qt # None =>
        \A q \in QTQueries :
            LET r == QuadTreeNearest(Val(qt), q[1], q[2])
            IN  /\ ~r.raised
                /\ (r.ret = None) <=> (qt_stored = <<>>)
                /\ r.ret # None =>
                      LET v == Val(r.ret)
                          pt == <<v[1], v[2], v[3]>>
                      IN  /\ pt \in SamplesOf(qt_stored)
                          /\ v[4] = DistSq(pt, q)
                          /\ \A s \in SamplesOf(qt_stored) : v[4] <= DistSq(s, q)

\* The same, for the trees in which no insert has raised RecursionError.
C5_NearestIsBruteForceUnlessRaised ==
    (qt # None /\ ~qt_raised) =>
        \A q \in QTQueries :
            LET r == QuadTreeNearest(Val(qt), q[1], q[2])
            IN  /\ ~r.raised
                /\ (r.ret = None) <=> (qt_stored = <<>>)
                /\ r.ret # None =>
                      LET v == Val(r.ret)
                          pt == <<v[1], v[2], v[3]>>
                      IN  /\ pt \in SamplesOf(qt_stored)
                          /\ v[4] = DistSq(pt, q)
                          /\ \A s \in SamplesOf(qt_stored) : v[4] <= DistSq(s, q)

\* How often sample pt is stored in the tree t.
TimesStored(t, pt) ==
    Cardinality({i \in 1 .. Len(NodePoints(t.root)) : NodePoints(t.root)[i] = pt})

\* C20, as stated: insert returns False if and only if the point lies
\* outside the root's closed region, and then the tree is unchanged;
\* otherwise it returns True and the sample is stored once more than
\* before.
C20_InsertFalseIffOutsideRoot ==
    [][(qt # None /\ qt_op' = "insert") =>
          LET pt == qt_ret'.call
              outside == ~(/\ Val(qt).root.xmin <= pt[1]
                           /\ pt[1] <= Val(qt).root.xmax
                           /\ Val(qt).root.ymin <= pt[2]
                           /\ pt[2] <= Val(qt).root.ymax)
          IN  /\ qt_ret'.ret = "False" <=> outside
              /\ outside => qt' = qt
              /\ ~outside =>
                    /\ qt_ret'.ret = "True"
                    /\ TimesStored(Val(qt'), pt) = TimesStored(Val(qt), pt) + 1]_vars

\* C21: inserting a sample equal to one already stored does not change the
\* result of nearest for any query point: the distance returned is the same
\* and the point returned is a stored sample at that distance.
C21_DuplicateInsertKeepsNearest ==
    [][(qt # None /\ qt_op' = "insert" /\ qt_ret'.call \in SamplesOf(qt_stored)) =>
          \A q \in QTQueries :
              LET before == QuadTreeNearest(Val(qt), q[1], q[2])
                  after  == QuadTreeNearest(Val(qt'), q[1], q[2])
              IN  (~before.raised /\ before.ret # None) =>
                      /\ ~after.raised
                      /\ after.ret # None
                      /\ Val(after.ret)[4] = Val(before.ret)[4]
                      /\ <<Val(after.ret)[1], Val(after.ret)[2], Val(after.ret)[3]>>
                            \in SamplesOf(qt_stored)]_vars

\* C28, as stated: insert terminates for every point inside the root
\* region and every prior tree state, also when more than capacity stored
\* samples share one (x, y): the call returns, it does not use up the
\* frames of the interpreter.
C28_InsertReturns ==
    (qt_op = "insert" /\ contains(Val(qt).root, qt_ret.call[1], qt_ret.call[2])) =>
        qt_ret.ret \in {"True", "False"}

\* The insert that raised was of a sample whose (x, y) as many stored
\* samples share as a node holds.
C28_CapacityIdenticalThenOneMore ==
    /\ qt_op = "insert"
    /\ qt_ret.ret = "RecursionError"
    /\ Cardinality({i \in 1 .. Len(qt_stored) :
                       /\ qt_stored[i][1] = qt_ret.call[1]
                       /\ qt_stored[i][2] = qt_ret.call[2]})
          >= Val(qt).root.capacity

----------------------------------------------------------------------------
(* Properties of get_surface_z and of the projection loop *)

Entries == {newcommandlist[i] : i \in 1 .. Len(newcommandlist)}

\* C1: every G1 command emitted by the projection loop has Z <= safe_height,
\* whatever the kind of its segment, the result of the height query and the
\* Z of the original point.
C1_ProjectedZAtMostSafeHeight ==
    \A e \in Entries :
        e.cmd.Name = "G1" => e.cmd.z # None /\ Val(e.cmd.z) <= SafeHeight

\* An elevated point whose remapped Z is above the safe height, and an
\* on-plane point whose query had no result, have been emitted.
C1_Witness ==
    /\ \E e \in Entries :
          /\ e.point # None /\ ~e.queried
          /\ Val(e.z_surface) + (Val(e.point).z - z_original_min) > SafeHeight
    /\ \E e \in Entries : e.queried /\ e.z_surface = None
    /\ \E e \in Entries : e.queried /\ e.z_surface # None

\* The answer of the live index to the query of the last call of
\* get_surface_z, as the index was when the call began.
NearestBefore == QuadTreeNearest(gsz.tree_before, gsz.x, gsz.y)

\* The nearest sample of the live index lay within CacheGrid of the query.
WithinCacheGrid ==
    /\ ~NearestBefore.raised
    /\ NearestBefore.ret # None
    /\ Val(NearestBefore.ret)[4] <= CacheGrid * CacheGrid

\* C6: when the nearest sample of the live index lies within CacheGrid of
\* (x, y), get_surface_z returns the Z of that sample, does not call
\* intersect_z, and changes neither the persistent cache nor the live index.
C6_CacheHitReturnsSampleUnchanged ==
    (gsz.called /\ WithinCacheGrid) =>
        /\ gsz.ret = Some(Val(NearestBefore.ret)[3])
        /\ gsz.intersect_calls = 0
        /\ PointCache = gsz.cache_before
        /\ runtime_quadtree = Some(gsz.tree_before)

\* A call hit a sample at the distance CacheGrid exactly, while intersect_z
\* would have given another value.
C6_Witness ==
    /\ gsz.called
    /\ WithinCacheGrid
    /\ Val(NearestBefore.ret)[4] = CacheGrid * CacheGrid
    /\ gsz.z_val # None
    /\ gsz.z_val # gsz.ret

\* C7: when get_surface_z misses the cache and intersect_z yields z, then on
\* return the sample (x, y, z) is in the points list of PointCache and in the
\* live quadtree, where nearest(x, y) finds it at distance 0, for every query
\* point and whatever the bounds of the live index.
C7_MissStoresSampleInCacheAndIndex ==
    (gsz.called /\ ~NearestBefore.raised /\ ~WithinCacheGrid /\ gsz.z_val # None) =>
        LET sample == <<gsz.x, gsz.y, Val(gsz.z_val)>>
            after == QuadTreeNearest(Val(runtime_quadtree), gsz.x, gsz.y)
        IN  /\ sample \in SamplesOf(CachePoints(PointCache))
            /\ sample \in SamplesOf(NodePoints(Val(runtime_quadtree).root))
            /\ ~after.raised /\ after.ret # None /\ Val(after.ret)[4] = 0

\* The number of commands the loop has emitted when it stands at segment
\* seg_i and point pt_i.
RECURSIVE Processed(_)
Processed(i) ==
    IF i = 0 THEN 0
    ELSE Processed(i - 1) + Max2(1, Len(segments[i].pointlist))

\* C10: when get_surface_z returns None for an on-plane point, the command
\* emitted for the point has Z equal to safe_height and the projection goes
\* on: the computation is not aborted, the cache and the index are as
\* before the query, and the Z of every other point is what its own query
\* and its own offset give.
C10_NoResultGivesSafeHeight ==
    /\ \A e \in Entries :
          (e.queried /\ e.z_surface = None) => e.cmd.z = Some(SafeHeight)
    /\ \A e \in Entries :
          (e.point # None /\ e.z_surface # None) =>
              e.cmd.z = Some(Min2(SafeHeight, Val(e.z_surface)
                                  + (Val(e.point).z - z_original_min)))
    /\ (gsz.called /\ gsz.ret = None) =>
          /\ p_pc \in {"loop", "yield", "done"}
          /\ PointCache = gsz.cache_before
          /\ runtime_quadtree = Some(gsz.tree_before)
    /\ p_pc \in {"loop", "yield", "done"} =>
          Len(newcommandlist) = Processed(seg_i - 1) + (pt_i - 1)

\* A query had no result for a point lying above the lowest point of the
\* path, and a command for a later point followed it.
C10_Witness ==
    /\ p_pc = "done"
    /\ \E i \in 1 .. Len(newcommandlist) - 1 :
          /\ newcommandlist[i].queried
          /\ newcommandlist[i].z_surface = None
          /\ Val(newcommandlist[i].point).z > z_original_min
          /\ newcommandlist[i + 1].point # None
          /\ newcommandlist[i + 1].z_surface # None

\* C13, as stated: when opExecute aborts on a precondition failure (tool
\* shape, no faces collected, no usable base path), the invocation has
\* modified none of PointCache, _CacheStateHash and the live index.
C13_AbortLeavesCacheUntouched ==
    [][(p_pc \in {"new", "idle"} /\ p_pc' = "returned") =>
          UNCHANGED <<PointCache, CacheStateHash, runtime_quadtree>>]_vars

\* C14, as stated: an exception raised by the intersection primitive during
\* a height query does not propagate out of get_surface_z; the query yields
\* None, no sample is cached and the computation continues.  So the loop is
\* never ended by such an exception.
C14_IntersectExceptionContained ==
    ~(p_pc = "raised" /\ p_exc = "intersect_z")

IsPrefix(a, b) == Len(a) <= Len(b) /\ SubSeq(b, 1, Len(a)) = a

C23_YieldLeavesCacheAndIndex ==
    [][p_pc = "yield" => UNCHANGED <<PointCache, runtime_quadtree>>]_vars

\* The loop went on after a yield at which the cache had been cleared, and
\* the next query found no live index.
C23_QueryAfterClear ==
    p_pc = "raised" /\ p_exc = "AttributeError"

C25_RecomputeKeepsSamples ==
    [][(/\ Idle
        /\ invocations >= 1
        /\ invocations' = invocations + 1
        /\ CacheStateHash = Some(compute_state_hash(faces))
        /\ faces' = faces
        /\ p_pc' # "returned") =>
           /\ CacheStateHash' = CacheStateHash
           /\ PointCache' = PointCache
           /\ p_pc' = "loop"
           /\ \A sample \in SamplesOf(CachePoints(PointCache)) :
                 sample \in SamplesOf(NodePoints(Val(runtime_quadtree').root))]_vars

\* C26, as stated: whenever the queries of a computation start, with the
\* stored hash equal to the hash of the current geometry, every sample of
\* PointCache was computed against geometry with that hash.
C26_SamplesOfCurrentGeometry ==
    (p_pc = "loop" /\ CacheStateHash = Some(compute_state_hash(faces))) =>
        \A i \in DOMAIN sample_hash : sample_hash[i] = CacheStateHash

\* Invalidation was blocked when the geometry changed and is no longer: the
\* queries are served from samples of the earlier geometry.
C26_StaleAfterUnblock ==
    /\ p_pc = "loop"
    /\ ~BlockCacheInvalidation
    /\ \E i \in DOMAIN sample_hash : sample_hash[i] # CacheStateHash

\* C29, as stated: a call of get_surface_z adds at most one entry to the
\* points list of PointCache: exactly one on a miss that obtains a value,
\* none on a hit or when no value is obtained.
C29_OneEntryPerMiss ==
    gsz.called =>
        Len(CachePoints(PointCache)) - Len(CachePoints(gsz.cache_before))
            = IF gsz.intersect_calls = 1 /\ gsz.ret # None THEN 1 ELSE 0

----------------------------------------------------------------------------
(* Properties of discretize_commands *)

\* The commands the loop has been through.
Seen == 1 .. Len(dc_seen)

\* Command k of the input has a segment, and which.
HasSegment(k) == dc_seen[k].emitted > (IF k = 1 THEN 0 ELSE dc_seen[k - 1].emitted)

SegmentOf(k) == dc_segments[dc_seen[k].emitted]

\* The Z the classification of command k is to go by: its explicit Z when
\* it carries one, else the tracked Z.
EffectiveZ(k) ==
    IF dc_commands[k].z # None THEN Val(dc_commands[k].z)
    ELSE dc_seen[k].location.z

\* C15, as stated: a command is tagged OTHER iff it is not a G0/G1/G2/G3
\* move; otherwise IS_ON_PLANE iff its explicit Z when it carries one, else
\* the tracked Z, is approximately zero; otherwise IS_HIGH.
C15_TagByEffectiveZ ==
    \A k \in Seen :
        HasSegment(k) =>
            SegmentOf(k).kind =
                IF ~is_motion(dc_commands[k]) THEN "OTHER"
                ELSE IF isRoughly(EffectiveZ(k), 0) THEN "IS_ON_PLANE"
                ELSE "IS_HIGH"

\* C16, as stated: exactly one TaggedSegment per input command, in input
\* order; a motion command whose edge cannot be built yields a segment with
\* an empty point list whose command is the original command.
C16_OneSegmentPerCommand ==
    /\ Len(dc_segments) = Len(dc_seen)
    /\ \A k \in 1 .. Len(dc_segments) :
          /\ dc_segments[k].command = dc_commands[k]
          /\ (is_motion(dc_commands[k]) /\ ~dc_seen[k].edge) =>
                dc_segments[k].pointlist = <<>>

====
